---------------------------- MODULE Spec2Model ----------------------------
(***************************************************************************)
(* Model of src/app.py: class MusicPlayer, the manifest loader, the text   *)
(* filter, the visible table, the play/pause/stop/next handlers, the       *)
(* random queue and the embedded YouTube IFrame player page.               *)
(*                                                                         *)
(* Strings are sequences of Unicode code points (97 is "a", 65 is "A",     *)
(* 32 is a space).  Catalog indices are Python indices: 0 .. len-1, and    *)
(* -1 is "no track"; the TLA+ sequence tracks is 1-based, so track i is    *)
(* tracks[i + 1].                                                          *)
(***************************************************************************)
EXTENDS Integers, Sequences, FiniteSets, TLC

VARIABLES
    file,           \* tracks.json on disk: absent, unreadable, or a JSON list
    loaded,         \* FALSE until __init__ has called _scan_and_load
    tracks,         \* self.tracks
    current_index,  \* self.current_index
    random_mode,    \* self.random_mode
    random_queue,   \* self.random_queue
    search_input,   \* text of self.search_input, the search box
    search_text,    \* self.search_text
    table,          \* self.table: the UserRole index of each row, top to bottom
    btn_play,       \* text of self.btn_play: "play" or "pause"
    status,         \* message shown in the status bar, "" when none
    js_player,      \* page variable player: TRUE once YT.Player exists
    js_pending,     \* page variable pending: a video id, or None
    js_video,       \* video the YT player was last told to load, or None
    js_state,       \* state of the YT player
    last,           \* history: the handler that ran last, with current_index,
                    \* search_text and random_queue as they were before it
    cycle           \* history: the indices next selected since the queue was made

vars == << file, loaded, tracks, current_index, random_mode, random_queue,
           search_input, search_text, table, btn_play, status, js_player, js_pending,
           js_video, js_state, last, cycle >>

---------------------------------------------------------------------------
(* Python str helpers *)

\* Python None where a string is expected (no string holds a negative code point).
None == << -1 >>

Range(s) == { s[i] : i \in 1..Len(s) }

\* str.isspace for one character (ASCII).
IsSpace(c) == c \in {9, 10, 11, 12, 13, 32}

\* str.lower, one character (ASCII letters; the other characters used are caseless).
LowerChar(c) == IF c \in 65..90 THEN c + 32 ELSE c

\* str.lower
Lower(s) == [i \in 1..Len(s) |-> LowerChar(s[i])]

\* s[a-1 : b] in Python terms: the characters at 1-based positions a .. b.
Slice(s, a, b) == IF a > b THEN << >> ELSE SubSeq(s, a, b)

Min(S) == CHOOSE i \in S : \A j \in S : i <= j
Max(S) == CHOOSE i \in S : \A j \in S : j <= i

\* s cut down to the span of the positions in keep.
Span(s, keep) == IF keep = {} THEN << >> ELSE Slice(s, Min(keep), Max(keep))

\* str.strip(chars): drop the leading and trailing characters that are in cs.
StripChars(s, cs) == Span(s, { i \in 1..Len(s) : s[i] \notin cs })

\* str.strip()
Strip(s) == StripChars(s, {9, 10, 11, 12, 13, 32})

\* str.startswith
StartsWith(s, p) == Len(p) <= Len(s) /\ Slice(s, 1, Len(p)) = p

\* q in s
Contains(q, s) ==
    \E k \in 0..(Len(s) - Len(q)) : Slice(s, k + 1, k + Len(q)) = q

\* 1-based position of the first character of s that is in cs, Len(s) + 1 if none.
FirstIn(hits, none) == IF hits = {} THEN none ELSE Min(hits)
FirstOf(s, cs) == FirstIn({ i \in 1..Len(s) : s[i] \in cs }, Len(s) + 1)

\* s < t for Python strings: lexicographic by code point.
StrLess(s, t) ==
    \E k \in 1..(Len(t)) :
        /\ \A j \in 1..(k - 1) : j <= Len(s) /\ s[j] = t[j]
        /\ (k > Len(s) \/ s[k] < t[k])

\* str.split(sep) for a one-character separator.
RECURSIVE Split(_, _)
SplitAt(s, sep, k) ==
    IF k > Len(s) THEN << s >>
    ELSE << Slice(s, 1, k - 1) >> \o Split(Slice(s, k + 1, Len(s)), sep)
Split(s, sep) == SplitAt(s, sep, FirstOf(s, {sep}))

---------------------------------------------------------------------------
(* tracks.json and _scan_and_load *)

DefaultArtista == << 40,68,101,115,99,111,110,111,99,105,100,111,41 >>   \* "(Desconocido)"
DefaultCancion == << 40,83,105,110,32,116,237,116,117,108,111,41 >>      \* "(Sin título)"

\* The template _scan_and_load writes when tracks.json does not exist:
\* "Daft Punk", "One More Time", "https://www.youtube.com/watch?v=FGBhQbmPwH8".
TemplateEntry ==
    [ dict    |-> TRUE,
      artista |-> << 68,97,102,116,32,80,117,110,107 >>,
      cancion |-> << 79,110,101,32,77,111,114,101,32,84,105,109,101 >>,
      url     |-> << 104,116,116,112,115,58,47,47,119,119,119,46,121,111,117,
                     116,117,98,101,46,99,111,109,47,119,97,116,99,104,63,118,
                     61,70,71,66,104,81,98,109,80,119,72,56 >> ]

\* A JSON list on disk.  An entry is [dict, artista, cancion, url]: dict says
\* whether the entry is a JSON object, and a key that is missing or null is None.
ListFile(items) == [kind |-> "list", items |-> items]
AbsentFile  == [kind |-> "absent", items |-> << >>]
InvalidFile == [kind |-> "invalid", items |-> << >>]   \* unreadable, or JSON that is no list

\* t.get(key) or default
GetOr(value, default) == IF value = None \/ value = << >> THEN default ELSE value

\* The dict appended for one manifest entry.
MakeTrack(t) ==
    [ artista |-> Strip(GetOr(t.artista, DefaultArtista)),
      cancion |-> Strip(GetOr(t.cancion, DefaultCancion)),
      url     |-> Strip(GetOr(t.url, << >>)) ]

\* The loop over data: one track per entry that is a dict, in input order.
RECURSIVE BuildTracks(_)
BuildTracks(data) ==
    IF data = << >> THEN << >>
    ELSE (IF Head(data).dict THEN << MakeTrack(Head(data)) >> ELSE << >>)
         \o BuildTracks(Tail(data))

\* The sort key: (x["artista"].lower(), x["cancion"].lower()).
SortKey(x) == << Lower(x.artista), Lower(x.cancion) >>

\* Python tuple comparison of two sort keys.
KeyLess(a, b) == StrLess(a[1], b[1]) \/ (a[1] = b[1] /\ StrLess(a[2], b[2]))

\* InsertSorted as an unstable sort would: x goes before the elements of equal key.
InsertSortedUnstable(sorted, x) ==
    Slice(sorted, 1,
          FirstIn({ i \in 1..Len(sorted) : ~KeyLess(SortKey(sorted[i]), SortKey(x)) },
                  Len(sorted) + 1) - 1)
    \o << x >> \o
    Slice(sorted,
          FirstIn({ i \in 1..Len(sorted) : ~KeyLess(SortKey(sorted[i]), SortKey(x)) },
                  Len(sorted) + 1),
          Len(sorted))

\* sorted with x put at position pos.
InsertAt(sorted, x, pos) ==
    Slice(sorted, 1, pos - 1) \o << x >> \o Slice(sorted, pos, Len(sorted))

\* Insert x into the sorted list after every element whose key is not greater.
InsertSorted(sorted, x) ==
    InsertAt(sorted, x,
             FirstIn({ i \in 1..Len(sorted) : KeyLess(SortKey(x), SortKey(sorted[i])) },
                     Len(sorted) + 1))

\* list.sort(key=...): a stable sort.
RECURSIVE SortTracks(_)
SortTracks(list) ==
    IF list = << >> THEN << >>
    ELSE InsertSorted(SortTracks(Slice(list, 1, Len(list) - 1)), list[Len(list)])

\* What json.loads yields for the file, after the template has been written
\* for an absent file and [] substituted for an unreadable one.
ReadData(f) ==
    CASE f.kind = "absent"  -> << TemplateEntry >>
      [] f.kind = "invalid" -> << >>
      [] OTHER              -> f.items

---------------------------------------------------------------------------
(* The filter and the table *)

\* Matches looking at the artist only.
MatchesArtistOnly(q, t) == Contains(q, Lower(t.artista))

\* Whether track t passes the query q (already lower-cased).
Matches(q, t) == Contains(q, Lower(t.artista)) \/ Contains(q, Lower(t.cancion))

\* _filtered_indices: the loop over enumerate(self.tracks), from index i on.
RECURSIVE FilterFrom(_, _, _)
FilterFrom(trs, q, i) ==
    IF i >= Len(trs) THEN << >>
    ELSE (IF Matches(q, trs[i + 1]) THEN << i >> ELSE << >>) \o FilterFrom(trs, q, i + 1)

FilteredIndices(trs, text) ==
    IF text = << >> THEN [i \in 1..Len(trs) |-> i - 1]
    ELSE FilterFrom(trs, Lower(text), 0)

\* Every order of the elements of s.
SeqPerms(s) ==
    IF s = << >> THEN { << >> }
    ELSE { [i \in 1..Len(s) |-> s[p[i]]] : p \in Permutations(1..Len(s)) }

\* The row orders the table can show for the rows _refresh_view writes.  The
\* rows are written in filtered order with sorting off; setSortingEnabled(True)
\* then lets the widget re-sort them by its sort indicator, which the user
\* sets by clicking a column header: any order of the same rows.
RowOrders(indices) == SeqPerms(indices)

\* Pool with the fallback range one too long.
PoolOffByOne == IF table # << >> THEN table ELSE [i \in 1..(Len(tracks) + 1) |-> i - 1]

\* _visible_pool_indices() or list(range(len(self.tracks)))
Pool == IF table # << >> THEN table ELSE [i \in 1..Len(tracks) |-> i - 1]

---------------------------------------------------------------------------
(* _youtube_id *)

\* The characters urlsplit accepts in a scheme: letters, digits, "+", "-", ".".
SchemeChars == (48..57) \cup (65..90) \cup (97..122) \cup {43, 45, 46}

\* The characters of s before position k, and from position k on.
Before(s, k) == Slice(s, 1, k - 1)
From(s, k) == Slice(s, k, Len(s))

\* Position of the ":" that ends a scheme (a letter, then scheme characters), or 0.
SchemeColon(url, colon) ==
    IF /\ colon > 1 /\ colon <= Len(url)
       /\ url[1] \in (65..90) \cup (97..122)
       /\ \A i \in 1..(colon - 1) : url[i] \in SchemeChars
    THEN colon ELSE 0

\* << netloc, rest >> of what follows the scheme: the netloc is what follows
\* "//" up to the first "/", "?" or "#".
CutNetloc(s, delim) == << Before(s, delim), From(s, delim) >>
SplitNetloc(rest) ==
    IF StartsWith(rest, << 47, 47 >>)
    THEN CutNetloc(From(rest, 3), FirstOf(From(rest, 3), {47, 63, 35}))
    ELSE << << >>, rest >>

\* The path and the query of what is left once the "#fragment" is cut off.
PathQuery(netloc, s, qmark) ==
    [ netloc |-> netloc, path |-> Before(s, qmark), query |-> From(s, qmark + 1) ]
UrlParts(netloc, s) == PathQuery(netloc, s, FirstOf(s, {63}))
UrlOfPair(pair) == UrlParts(pair[1], Before(pair[2], FirstOf(pair[2], {35})))

\* urlparse(url), the parts _youtube_id reads: netloc, path and query.  (The
\* URLs of the model hold no ";", "%", tab or newline.)
UrlParse(url) ==
    UrlOfPair(SplitNetloc(From(url, SchemeColon(url, FirstOf(url, {58})) + 1)))

\* "+" decoded as a space, as parse_qs does before unquoting.
PlusToSpace(s) == [i \in 1..Len(s) |-> IF s[i] = 43 THEN 32 ELSE s[i]]

\* parse_qs(query).get("v", [None])[0]: the value of the first "v=value" field
\* whose value is not blank; fields without "=" and blank values are dropped.
RECURSIVE FirstV(_)
FieldV(f, eq, rest) ==
    IF eq < Len(f) /\ PlusToSpace(Before(f, eq)) = << 118 >>
    THEN PlusToSpace(From(f, eq + 1))
    ELSE FirstV(rest)
FirstV(fields) ==
    IF fields = << >> THEN None
    ELSE FieldV(Head(fields), FirstOf(Head(fields), {61}), Tail(fields))

QueryV(query) == FirstV(Split(query, 38))

YoutuBe    == << 121,111,117,116,117,46,98,101 >>             \* "youtu.be"
YoutubeCom == << 121,111,117,116,117,98,101,46,99,111,109 >>  \* "youtube.com"
WatchPath  == << 47,119,97,116,99,104 >>                      \* "/watch"
ShortsPath == << 47,115,104,111,114,116,115,47 >>             \* "/shorts/"
EmbedPath  == << 47,101,109,98,101,100,47 >>                  \* "/embed/"

\* u.path.strip("/") or None
OrNone(v) == IF v = << >> THEN None ELSE v

\* _youtube_id: the video id, or None (an empty id counts as none for the caller).
YoutubeIdOf(host, path, query) ==
    IF Contains(YoutuBe, host)
    THEN OrNone(StripChars(path, {47}))
    ELSE IF Contains(YoutubeCom, host)
    THEN (IF path = WatchPath THEN QueryV(query)
          ELSE IF StartsWith(path, ShortsPath) \/ StartsWith(path, EmbedPath)
          THEN Split(path, 47)[3]
          ELSE None)
    ELSE None
YoutubeIdOfUrl(u) == YoutubeIdOf(Lower(u.netloc), u.path, u.query)
YoutubeId(url) == YoutubeIdOfUrl(UrlParse(url))

\* vid.replace("'", "\\'")
RECURSIVE EscapeQuotes(_)
EscapeQuotes(vid) ==
    IF vid = << >> THEN << >>
    ELSE (IF Head(vid) = 39 THEN << 92, 39 >> ELSE << Head(vid) >>) \o EscapeQuotes(Tail(vid))

---------------------------------------------------------------------------
(* The page of the invisible player *)

\* playId(id): queue the id until the player exists, else load and play it.
JsPlayId(id) ==
    IF ~js_player
    THEN js_pending' = id /\ UNCHANGED << js_player, js_video, js_state >>
    ELSE js_video' = id /\ js_state' = "playing" /\ UNCHANGED << js_player, js_pending >>

\* pauseVid(): pauseVideo() pauses a playing video and leaves the other states.
JsPauseVid ==
    /\ js_state' = IF js_player /\ js_state = "playing" THEN "paused" ELSE js_state
    /\ UNCHANGED << js_player, js_pending, js_video >>

\* stopVid(): stopVideo() leaves the player in some state that is not playing.
JsStopVid ==
    /\ js_state' = IF js_player /\ js_video # None THEN "stopped" ELSE js_state
    /\ UNCHANGED << js_player, js_pending, js_video >>

JsUnchanged == UNCHANGED << js_player, js_pending, js_video, js_state >>

---------------------------------------------------------------------------
(* Playback *)

\* _play_index once the index is known to be valid and the id extracted.
PlayVideo(vid) ==
    IF vid = None \/ vid = << >>
    THEN /\ status' = "URL invalida"
         /\ UNCHANGED btn_play
         /\ JsUnchanged
    ELSE /\ JsPlayId(EscapeQuotes(vid))
         /\ btn_play' = "pause"
         /\ UNCHANGED status

\* PlayIndex with the test 0 <= index forgotten: a negative index counts
\* from the end of the list, as Python's indexing does.
PlayIndexNoLowerBound(index) ==
    IF ~(index < Len(tracks)) \/ tracks = << >>
    THEN UNCHANGED << current_index, btn_play, status >> /\ JsUnchanged
    ELSE /\ current_index' = index
         /\ PlayVideo(YoutubeId(tracks[(index % Len(tracks)) + 1].url))

\* PlayIndex with the test index < len forgotten: current_index is assigned
\* and the list lookup then raises.
PlayIndexNoUpperBound(index) ==
    IF ~(0 <= index)
    THEN UNCHANGED << current_index, btn_play, status >> /\ JsUnchanged
    ELSE /\ current_index' = index
         /\ IF index < Len(tracks)
            THEN PlayVideo(YoutubeId(tracks[index + 1].url))
            ELSE UNCHANGED << btn_play, status >> /\ JsUnchanged

\* _play_index(index)
PlayIndex(index) ==
    IF ~(0 <= index /\ index < Len(tracks))
    THEN UNCHANGED << current_index, btn_play, status >> /\ JsUnchanged
    ELSE /\ current_index' = index
         /\ PlayVideo(YoutubeId(tracks[index + 1].url))

\* current_index when no track has been chosen.
NoIndex == -1

\* exclude_index=None, as an index no pool holds.
ExcludeNone == -2

\* QueueCandidates that never leaves the excluded index out.
QueueCandidatesKeepsCurrent(pool, exclude_index) == pool

\* _prepare_random_queue(pool, exclude_index) before random.shuffle: the pool
\* without the excluded index, unless that would empty it.
QueueCandidates(pool, exclude_index) ==
    IF exclude_index \in Range(pool) /\ Len(pool) > 1
    THEN SelectSeq(pool, LAMBDA x : x # exclude_index)
    ELSE pool

\* _prepare_random_queue: the queues random.shuffle can leave.
PreparedQueues(pool, exclude_index) == SeqPerms(QueueCandidates(pool, exclude_index))

\* pool.index(x) as a 1-based position (x occurs in pool).
IndexOf(pool, x) == CHOOSE p \in 1..Len(pool) : pool[p] = x /\ \A j \in 1..(p - 1) : pool[j] # x

\* NextInOrder with the modulo forgotten: the last track has no successor.
NextInOrderNoWrap(pool, cur) ==
    IF cur \in Range(pool)
    THEN pool[IF IndexOf(pool, cur) = Len(pool) THEN Len(pool) ELSE IndexOf(pool, cur) + 1]
    ELSE pool[1]

\* NextInOrder falling back to the last row instead of the first.
NextInOrderFromEnd(pool, cur) ==
    IF cur \in Range(pool)
    THEN pool[(IndexOf(pool, cur) % Len(pool)) + 1]
    ELSE pool[Len(pool)]

\* The non-random choice of _on_next: the successor of the current index in
\* the pool, cyclically, or the first of the pool.
NextInOrder(pool, cur) ==
    IF cur \in Range(pool)
    THEN pool[((IndexOf(pool, cur) - 1 + 1) % Len(pool)) + 1]
    ELSE pool[1]

---------------------------------------------------------------------------
(* Handlers *)

\* _get_next_random_index: the index returned, ExcludeNone for None.
PopIndex(queue) == IF queue = << >> THEN ExcludeNone ELSE Head(queue)

\* PopRest with pop() for pop(0): the last index is dropped.
PopRestFromEnd(queue) ==
    IF queue = << >> THEN queue ELSE SubSeq(queue, 1, Len(queue) - 1)

\* _get_next_random_index: the queue left behind.
PopRest(queue) == IF queue = << >> THEN queue ELSE Tail(queue)

\* No queue made, or the table or the selection touched since it was made.
NoCycle == [ok |-> FALSE, excl |-> NoIndex, played |-> << >>]

\* A queue was just made while cur was current: cur is left out when it is
\* shown and is not the only row.
NewCycle(cur, played) ==
    [ok |-> TRUE,
     excl |-> IF cur \in Range(table) /\ Len(table) > 1 THEN cur ELSE NoIndex,
     played |-> played]

\* The history after handler op, called with index (NoIndex for the handlers
\* that take none).
NoteCall(op, index) ==
    /\ last' = [op |-> op, from |-> current_index, text |-> search_text,
                queue |-> random_queue, index |-> index]
    /\ cycle' =
          CASE op \in {"load", "reload", "search", "sort", "double_click", "play_index",
                      "random_off"}
                 -> NoCycle
            [] op = "random_on"
                 -> NewCycle(current_index, << >>)
            [] op = "play_pause" /\ random_mode /\ current_index < 0 /\ tracks # << >>
                 -> NewCycle(NoIndex, << current_index' >>)
            [] op = "next" /\ random_mode /\ tracks # << >> /\ random_queue = << >>
                 -> NewCycle(current_index, << current_index' >>)
            [] op = "next" /\ random_mode /\ tracks # << >> /\ random_queue # << >> /\ cycle.ok
                 -> [cycle EXCEPT !.played = Append(@, current_index')]
            [] OTHER -> cycle

Note(op) == NoteCall(op, NoIndex)

\* _scan_and_load, the last call of __init__.
ScanAndLoad ==
    /\ ~loaded
    /\ loaded' = TRUE
    /\ file' = IF file.kind = "absent" THEN ListFile(<< TemplateEntry >>) ELSE file
    /\ tracks' = SortTracks(BuildTracks(ReadData(file)))
    /\ table' \in RowOrders(FilteredIndices(tracks', search_text))
    \* an unreadable file leaves no track, so its message is replaced at once
    /\ status' = IF tracks' = << >> THEN "No hay tracks" ELSE status
    /\ Note("load")
    /\ UNCHANGED << current_index, random_mode, random_queue, search_input, search_text,
                    btn_play >>
    /\ JsUnchanged

\* OnSearchChanged that also empties the random queue.
OnSearchChangedDropsQueue(text) ==
    /\ loaded
    /\ search_input' = text
    /\ search_text' = Strip(text)
    /\ table' \in RowOrders(FilteredIndices(tracks, search_text'))
    /\ random_queue' = << >>
    /\ Note("search")
    /\ UNCHANGED << file, loaded, tracks, current_index, random_mode, btn_play, status >>
    /\ JsUnchanged

\* _on_search_changed(text), then _refresh_view.
OnSearchChanged(text) ==
    /\ loaded
    /\ search_input' = text
    /\ search_text' = Strip(text)
    /\ table' \in RowOrders(FilteredIndices(tracks, search_text'))
    /\ Note("search")
    /\ UNCHANGED << file, loaded, tracks, current_index, random_mode, random_queue,
                    btn_play, status >>
    /\ JsUnchanged

\* A click on a column header: the widget re-sorts its rows.
OnHeaderClick ==
    /\ loaded
    /\ table' \in RowOrders(table) \ {table}
    /\ Note("sort")
    /\ UNCHANGED << file, loaded, tracks, current_index, random_mode, random_queue,
                    search_input, search_text, btn_play, status >>
    /\ JsUnchanged

\* _on_double_click(row, _col); the widget reports a row it shows.
OnDoubleClick(row) ==
    /\ loaded
    /\ row \in 0..(Len(table) - 1)
    /\ PlayIndex(table[row + 1])
    /\ Note("double_click")
    /\ UNCHANGED << file, loaded, tracks, random_mode, random_queue, search_input,
                    search_text, table >>

\* _on_play_pause
OnPlayPause ==
    /\ loaded
    /\ UNCHANGED << file, loaded, tracks, random_mode, search_input, search_text, table >>
    /\ IF current_index < 0 /\ tracks # << >>
       THEN IF random_mode
            THEN \E q \in PreparedQueues(Pool, ExcludeNone) :
                    /\ random_queue' = PopRest(q)
                    /\ PlayIndex(IF PopIndex(q) = ExcludeNone THEN Pool[1] ELSE PopIndex(q))
            ELSE UNCHANGED random_queue /\ PlayIndex(Pool[1])
       ELSE IF btn_play = "pause"
            THEN /\ JsPauseVid
                 /\ btn_play' = "play"
                 /\ UNCHANGED << current_index, random_queue, status >>
            ELSE /\ PlayIndex(current_index)
                 /\ UNCHANGED random_queue
    /\ Note("play_pause")

\* _on_stop
OnStop ==
    /\ loaded
    /\ JsStopVid
    /\ btn_play' = "play"
    /\ Note("stop")
    /\ UNCHANGED << file, loaded, tracks, current_index, random_mode, random_queue,
                    search_input, search_text, table, status >>

\* _on_next
OnNext ==
    /\ loaded
    /\ UNCHANGED << file, loaded, tracks, random_mode, search_input, search_text, table >>
    /\ IF tracks = << >>
       THEN UNCHANGED << current_index, random_queue, btn_play, status >> /\ JsUnchanged
       ELSE IF random_mode
            THEN \E q \in (IF random_queue = << >>
                           THEN PreparedQueues(Pool, current_index)
                           ELSE {random_queue}) :
                    /\ random_queue' = PopRest(q)
                    /\ PlayIndex(IF PopIndex(q) = ExcludeNone
                                 THEN NextInOrder(Pool, current_index)
                                 ELSE PopIndex(q))
            ELSE UNCHANGED random_queue /\ PlayIndex(NextInOrder(Pool, current_index))
    /\ Note("next")

\* OnToggleRandom without the clear() of the else branch.
OnToggleRandomKeepsQueue(checked) ==
    /\ loaded
    /\ checked # random_mode
    /\ random_mode' = checked
    /\ IF checked
       THEN random_queue' \in PreparedQueues(Pool, current_index)
       ELSE UNCHANGED random_queue
    /\ Note(IF checked THEN "random_on" ELSE "random_off")
    /\ UNCHANGED << file, loaded, tracks, current_index, search_input, search_text,
                    table, btn_play, status >>
    /\ JsUnchanged

\* _on_toggle_random(checked); toggled is emitted when the button changes state.
OnToggleRandom(checked) ==
    /\ loaded
    /\ checked # random_mode
    /\ random_mode' = checked
    /\ IF checked
       THEN random_queue' \in PreparedQueues(Pool, current_index)
       ELSE random_queue' = << >>
    /\ Note(IF checked THEN "random_on" ELSE "random_off")
    /\ UNCHANGED << file, loaded, tracks, current_index, search_input, search_text,
                    table, btn_play, status >>
    /\ JsUnchanged

\* onYouTubeIframeAPIReady and the player's onReady: the player exists, and a
\* pending id is played.
JsApiReady ==
    /\ loaded
    /\ ~js_player
    /\ js_player' = TRUE
    /\ js_pending' = None
    /\ IF js_pending # None
       THEN js_video' = js_pending /\ js_state' = "playing"
       ELSE UNCHANGED << js_video, js_state >>
    /\ Note("api_ready")
    /\ UNCHANGED << file, loaded, tracks, current_index, random_mode, random_queue,
                    search_input, search_text, table, btn_play, status >>

\* The video plays to its end.  The page registers onReady only, so no
\* handler of the application runs.
JsEnded ==
    /\ loaded
    /\ js_state = "playing"
    /\ js_state' = "ended"
    /\ Note("ended")
    /\ UNCHANGED << file, loaded, tracks, current_index, random_mode, random_queue,
                    search_input, search_text, table, btn_play, status, js_player,
                    js_pending, js_video >>

\* _scan_and_load called again while the window is open, as the comment
\* after _on_open_tracks_json proposes for a reload button; the user has
\* edited tracks.json into the manifest edited in the meantime.
Reload(edited) ==
    /\ loaded
    /\ file' = IF edited.kind = "absent" THEN ListFile(<< TemplateEntry >>) ELSE edited
    /\ tracks' = SortTracks(BuildTracks(ReadData(edited)))
    /\ table' \in RowOrders(FilteredIndices(tracks', search_text))
    /\ status' = IF tracks' = << >> THEN "No hay tracks" ELSE status
    /\ Note("reload")
    /\ UNCHANGED << loaded, current_index, random_mode, random_queue, search_input,
                    search_text, btn_play >>
    /\ JsUnchanged

\* _play_index(index) called with any integer, valid or not.
CallPlayIndex(index) ==
    /\ loaded
    /\ PlayIndex(index)
    /\ NoteCall("play_index", index)
    /\ UNCHANGED << file, loaded, tracks, random_mode, random_queue, search_input,
                    search_text, table >>

---------------------------------------------------------------------------
(* Specifications *)

MaxTracks == 2      \* most entries of a manifest of Spec
MaxRecords == 3     \* most entries of a manifest of SpecLoad

\* Entry i of the manifests of Spec: artists "b", "c", "d", ...; songs "Y"
\* for odd i and "X" for even i; the URL of entries 2, 5, ... names no video.
Entry(i) ==
    [ dict    |-> TRUE,
      artista |-> << 97 + i >>,
      cancion |-> << 88 + (i % 2) >>,
      url     |-> IF i % 3 = 2
                  THEN << 120,46,105,111,47,97 >>                              \* "x.io/a"
                  ELSE << 104,116,116,112,115,58,47,47,121,111,117,116,117,46,
                          98,101,47, 97 + i >> ]                               \* "https://youtu.be/<c>"

\* The manifest of k tracks, listed from the last artist to the first.
Catalogue(k) == ListFile([i \in 1..k |-> Entry(k + 1 - i)])

Files == { Catalogue(k) : k \in 0..MaxTracks } \cup { AbsentFile, InvalidFile }

\* The rows a double click can name (the handler takes the rows the table shows).
Rows == 0..MaxTracks

\* What the user types in the search box: "", " y" and "Q ".
SearchTexts == { << >>, << 32, 121 >>, << 81, 32 >> }

Init ==
    /\ file \in Files
    /\ loaded = FALSE
    /\ tracks = << >>
    /\ current_index = NoIndex
    /\ random_mode = FALSE
    /\ random_queue = << >>
    /\ search_input = << >>
    /\ search_text = << >>
    /\ table = << >>
    /\ btn_play = "play"
    /\ status = ""
    /\ js_player = FALSE
    /\ js_pending = None
    /\ js_video = None
    /\ js_state = "unstarted"
    /\ last = [op |-> "init", from |-> NoIndex, text |-> << >>, queue |-> << >>,
               index |-> NoIndex]
    /\ cycle = NoCycle

Next ==
    \/ ScanAndLoad
    \/ \E text \in SearchTexts : OnSearchChanged(text)
    \/ OnHeaderClick
    \/ \E row \in Rows : OnDoubleClick(row)
    \/ OnPlayPause
    \/ OnStop
    \/ OnNext
    \/ \E checked \in BOOLEAN : OnToggleRandom(checked)
    \/ JsApiReady
    \/ JsEnded

Spec == Init /\ [][Next]_vars

\* The arguments of the direct calls of _play_index: two below 0, the
\* catalog indices, and one past the largest catalog.
CallIndices == (NoIndex - 1)..MaxTracks

\* The player with _play_index also called directly.
NextPlay ==
    \/ Next
    \/ \E index \in CallIndices : CallPlayIndex(index)

SpecPlay == Init /\ [][NextPlay]_vars

\* The player with the reload the source proposes.
NextReload ==
    \/ Next
    \/ \E edited \in Files : Reload(edited)

SpecReload == Init /\ [][NextReload]_vars

---------------------------------------------------------------------------
(* The loader on raw manifests *)

\* The entries of the manifests of SpecLoad.
RawEntries ==
    { [dict |-> FALSE, artista |-> None, cancion |-> None, url |-> None],    \* no JSON object
      [dict |-> TRUE, artista |-> << 98 >>, cancion |-> << 120 >>,           \* "b", "x"
       url |-> << 47,47,121,111,117,116,117,46,98,101,47,49 >>],             \* "//youtu.be/1"
      [dict |-> TRUE, artista |-> << 66, 32 >>, cancion |-> << 32, 88 >>,    \* "B ", " X"
       url |-> None],
      [dict |-> TRUE, artista |-> << 97 >>, cancion |-> << 89 >>,            \* "a", "Y"
       url |-> << >>],
      [dict |-> TRUE, artista |-> None, cancion |-> << >>,                   \* no artist, ""
       url |-> << 47,47,121,111,117,116,117,46,98,101,47,50 >>],             \* "//youtu.be/2"
      [dict |-> TRUE, artista |-> << 98 >>, cancion |-> << 120 >>,           \* "b", "x"
       url |-> << 32 >>] }                                                   \* " "

\* Every sequence of at most n elements of S.
RECURSIVE SeqsUpTo(_, _)
SeqsUpTo(S, n) ==
    IF n = 0 THEN { << >> }
    ELSE SeqsUpTo(S, n - 1) \cup
         { Append(q, e) : q \in { r \in SeqsUpTo(S, n - 1) : Len(r) = n - 1 }, e \in S }

RawFiles == { ListFile(items) : items \in SeqsUpTo(RawEntries, MaxRecords) }

InitLoad ==
    /\ file \in RawFiles
    /\ loaded = FALSE
    /\ tracks = << >>
    /\ current_index = NoIndex
    /\ random_mode = FALSE
    /\ random_queue = << >>
    /\ search_input = << >>
    /\ search_text = << >>
    /\ table = << >>
    /\ btn_play = "play"
    /\ status = ""
    /\ js_player = FALSE
    /\ js_pending = None
    /\ js_video = None
    /\ js_state = "unstarted"
    /\ last = [op |-> "init", from |-> NoIndex, text |-> << >>, queue |-> << >>,
               index |-> NoIndex]
    /\ cycle = NoCycle

NextLoad == ScanAndLoad

SpecLoad == InitLoad /\ [][NextLoad]_vars

---------------------------------------------------------------------------
(* Claims *)

\* The catalog indices.
Indices == 0..(Len(tracks) - 1)

\* C1: with random off, a next on a non-empty table that shows the current
\* track at position p selects the track at position (p + 1) mod length: the
\* last row wraps to the first, a single row selects itself.
NextIsCyclicSuccessor ==
    (last.op = "next" /\ ~random_mode /\ table # << >> /\ last.from \in Range(table))
        => \E p \in 1..Len(table) :
              /\ table[p] = last.from
              /\ current_index = table[(p % Len(table)) + 1]

\* C1 witness: a next from the last of at least two rows went to the first row.
NextWrapped ==
    /\ last.op = "next" /\ ~random_mode /\ Len(table) >= 2
    /\ last.from = table[Len(table)]
    /\ current_index = table[1]

\* C2: a next on an empty table selects nothing: current_index stays, random
\* or not, also when the catalog is not empty and the filter matches nothing.
NextOnEmptyTableIsNone ==
    (last.op = "next" /\ table = << >>) => current_index = last.from

\* C3: in random mode with at least two visible rows, next never selects the
\* index that was current when it was called.
RandomNextNeverRepeats ==
    (last.op = "next" /\ random_mode /\ Len(table) >= 2) => current_index # last.from

\* C4: in random mode every index next selects is a row of the table as it is
\* at the call, also when the filter changed after the queue was made.
RandomNextIsVisible ==
    (last.op = "next" /\ random_mode /\ table # << >>) => current_index \in Range(table)

\* C5: with random off and a non-empty table, a next whose current index is
\* none or is not shown selects the first row.
NextFromHiddenIsFirstRow ==
    (last.op = "next" /\ ~random_mode /\ table # << >> /\ last.from \notin Range(table))
        => current_index = table[1]

\* C5 witness: the current track was filtered out of a table that still
\* shows rows, and next went to the first row.
NextLeftHiddenTrack ==
    /\ last.op = "next" /\ ~random_mode /\ table # << >>
    /\ last.from \in Indices /\ last.from \notin Range(table)
    /\ current_index = table[1]

\* The indices the queue must hold once random is switched on, by C6.
QueueMembers ==
    Range(table) \ (IF current_index \in Range(table) /\ Len(table) > 1
                    THEN {current_index} ELSE {})

\* C6: switching random on makes the queue a permutation of the visible
\* rows, without the current index iff it is shown and more than one row is.
RandomOnQueueIsVisiblePermutation ==
    last.op = "random_on"
        => /\ Range(random_queue) = QueueMembers
           /\ Len(random_queue) = Cardinality(QueueMembers)

\* The manifest entries that are objects with a url that is not empty.
WithUrl(items) ==
    { i \in 1..Len(items) : items[i].dict /\ items[i].url # None /\ Strip(items[i].url) # << >> }

\* C7: the loaded catalog holds no track of an entry whose url is missing or
\* empty, and one track for each other entry.
LoadSkipsEntriesWithoutUrl ==
    loaded => /\ \A i \in 1..Len(tracks) : tracks[i].url # << >>
              /\ Len(tracks) = Cardinality(WithUrl(file.items))

\* a <= b for sort keys.
KeyLeq(a, b) == a = b \/ KeyLess(a, b)

\* C8: the loaded catalog is the stable sort of the built tracks by (artist
\* lower-cased, title lower-cased): some one-to-one placement p of the built
\* tracks gives the catalog, keys never decrease, and equal keys keep their
\* input order.
LoadSortsStably ==
    loaded =>
        \E p \in Permutations(1..Len(tracks)) :
            /\ Len(BuildTracks(file.items)) = Len(tracks)
            /\ \A k \in 1..Len(tracks) : tracks[k] = BuildTracks(file.items)[p[k]]
            /\ \A i, j \in 1..Len(tracks) :
                  i < j => /\ KeyLeq(SortKey(tracks[i]), SortKey(tracks[j]))
                           /\ (SortKey(tracks[i]) = SortKey(tracks[j]) => p[i] < p[j])

\* C8 witness: two tracks of equal key and different text were listed before
\* a track of smaller key, and stand in their input order after it.
LoadMovedEqualKeys ==
    /\ loaded /\ Len(tracks) = 3 /\ Len(file.items) = 3
    /\ SortKey(tracks[2]) = SortKey(tracks[3]) /\ tracks[2] # tracks[3]
    /\ KeyLess(SortKey(tracks[1]), SortKey(tracks[2]))
    /\ tracks[1] = MakeTrack(file.items[3])
    /\ tracks[2] = MakeTrack(file.items[1])
    /\ tracks[3] = MakeTrack(file.items[2])

\* q occurs in s, said with SubSeq.
IsSubstring(q, s) == \E a \in 0..Len(s) : \E b \in a..Len(s) : SubSeq(s, a + 1, b) = q

\* s is t without its leading and trailing white space.
IsTrimmed(s, t) ==
    \E a \in 1..(Len(t) + 1) : \E b \in (a - 1)..Len(t) :
        /\ s = SubSeq(t, a, b)
        /\ \A i \in 1..(a - 1) : IsSpace(t[i])
        /\ \A i \in (b + 1)..Len(t) : IsSpace(t[i])
        /\ (s # << >> => ~IsSpace(s[1]) /\ ~IsSpace(s[Len(s)]))

\* The indices whose artist or title, lower-cased, contains the lower-cased text.
Passing(text) ==
    { i \in Indices : \/ IsSubstring(Lower(text), Lower(tracks[i + 1].artista))
                      \/ IsSubstring(Lower(text), Lower(tracks[i + 1].cancion)) }

\* C9: the filter is the trimmed text of the search box; the filtered indices
\* are the passing indices in catalog order, and the table shows exactly
\* them; with an empty filter, whatever was filtered before, they are all the
\* catalog indices in catalog order.
FilterIsOrderedSubsequence ==
    loaded =>
        /\ IsTrimmed(search_text, search_input)
        /\ Range(FilteredIndices(tracks, search_text)) = Passing(search_text)
        /\ \A i, j \in 1..Len(FilteredIndices(tracks, search_text)) :
              i < j => FilteredIndices(tracks, search_text)[i]
                         < FilteredIndices(tracks, search_text)[j]
        /\ Range(table) = Passing(search_text)
        /\ Len(table) = Cardinality(Passing(search_text))
        /\ (search_text = << >> =>
               FilteredIndices(tracks, search_text) = [i \in 1..Len(tracks) |-> i - 1])

\* C9 witness: a filter that hid some of at least two tracks was cleared and
\* every track is shown again.
FilterClearedAgain ==
    /\ last.op = "search" /\ Len(tracks) >= 2
    /\ last.text # << >>
    /\ Cardinality(Passing(last.text)) < Len(tracks)
    /\ search_text = << >>
    /\ Range(table) = Indices

\* C10: when the current video plays to its end, one next follows: with
\* random off and the current track among at least two rows, current_index
\* moves to its cyclic successor.
EndedAdvancesOnce ==
    (last.op = "ended" /\ ~random_mode /\ Len(table) >= 2 /\ last.from \in Range(table))
        => \E p \in 1..Len(table) :
              /\ table[p] = last.from
              /\ current_index = table[(p % Len(table)) + 1]

\* C11: after every load, also one made after tracks were played or random
\* was switched on, no track is current and the random queue is empty.
LoadResetsPlayback ==
    last.op \in {"load", "reload"} => current_index = NoIndex /\ random_queue = << >>

\* C12: after stop no track is current, so that the next play starts as
\* from a fresh window and not on the track that was current.
StopLeavesNoCurrent ==
    last.op = "stop" => current_index = NoIndex

\* C13: a change of the search text leaves current_index, random_mode and
\* random_queue as they were.
SearchKeepsPlayback ==
    [][last'.op = "search" => UNCHANGED << current_index, random_mode, random_queue >>]_vars

\* C13 witness: in random mode, with a track current, the filter changed and
\* the queue still holds an index that is no longer shown.
SearchKeptHiddenQueue ==
    /\ last.op = "search" /\ last.text # search_text
    /\ random_mode /\ current_index \in Indices /\ current_index = last.from
    /\ random_queue # << >> /\ random_queue = last.queue
    /\ ~(Range(random_queue) \subseteq Range(table))

\* C14: _play_index with an index outside 0 .. len-1 changes nothing:
\* current_index, the queue, the button, the status bar and the player stay;
\* with an index inside, that index becomes current.
PlayIndexChecksRange ==
    [][last'.op = "play_index" =>
          IF last'.index \in Indices
          THEN current_index' = last'.index
          ELSE UNCHANGED << current_index, random_queue, btn_play, status, js_pending,
                            js_video, js_state >>]_vars

\* C14 witness: while a track played, _play_index was called with an index
\* below 0 other than -1 and the track is still current and playing.
PlayIndexIgnoredNegative ==
    /\ last.op = "play_index" /\ last.index < NoIndex
    /\ current_index \in Indices /\ current_index = last.from
    /\ btn_play = "pause"

\* The id the page was last told to play, None when none.
Told == IF js_player THEN js_video ELSE js_pending

\* C15: current_index is none or designates the track whose video the page
\* was last told to play, also after an attempt on a track whose URL names
\* no video.
CurrentIsToldTrack ==
    (loaded /\ current_index # NoIndex)
        => /\ current_index \in Indices
           /\ YoutubeId(tracks[current_index + 1].url) \notin {None, << >>}
           /\ Told = EscapeQuotes(YoutubeId(tracks[current_index + 1].url))

\* C16: with random off the queue is empty, in every state; switching random
\* off empties it.
QueueEmptyUnlessRandom ==
    ~random_mode => random_queue = << >>

\* C16 witness: random was switched off while the queue held indices.
RandomOffClearedQueue ==
    /\ last.op = "random_off" /\ last.queue # << >>
    /\ ~random_mode /\ random_queue = << >>

\* C17: with an empty catalog, whatever handlers ran, no track is current,
\* nothing plays and the queue is empty; taking from that queue gives None
\* and leaves it empty.
EmptyCatalogStaysIdle ==
    (loaded /\ tracks = << >>)
        => /\ current_index = NoIndex
           /\ btn_play = "play"
           /\ random_queue = << >>
           /\ PopIndex(random_queue) = ExcludeNone
           /\ PopRest(random_queue) = << >>

\* C17 witness: on an empty catalog, with a search text typed and random on,
\* next ran.
NextOnEmptyCatalog ==
    /\ loaded /\ tracks = << >>
    /\ last.op = "next" /\ random_mode /\ search_text # << >>
    /\ current_index = NoIndex /\ random_queue = << >>

\* C18: current_index is -1 or a catalog index, and the button shows Pause
\* only while current_index is a catalog index.
CurrentIndexIsValid ==
    /\ current_index = NoIndex \/ current_index \in Indices
    /\ btn_play = "pause" => current_index \in Indices

\* C18 witness: while a track played, _play_index was called with an index
\* past the catalog, and a catalog index is still current.
PlayIndexIgnoredPastEnd ==
    /\ last.op = "play_index" /\ last.index >= Len(tracks)
    /\ btn_play = "pause" /\ current_index \in Indices

\* C19: the queue holds catalog indices, none twice; a next in random mode
\* on a queue that is not empty selects its first index and leaves the
\* others in their order.
QueueIsDistinctAndPopsFront ==
    /\ \A i, j \in 1..Len(random_queue) : i # j => random_queue[i] # random_queue[j]
    /\ Range(random_queue) \subseteq Indices
    /\ (last.op = "next" /\ random_mode /\ last.queue # << >>)
          => /\ current_index = Head(last.queue)
             /\ random_queue = Tail(last.queue)

\* C19 witness: next took the first of a queue of two or more.
NextPoppedLongQueue ==
    /\ last.op = "next" /\ random_mode /\ Len(last.queue) >= 2
    /\ current_index = Head(last.queue)
    /\ random_queue = Tail(last.queue)

\* How often next selected index i since the queue was made.
TimesPlayed(i) == Cardinality({ k \in 1..Len(cycle.played) : cycle.played[k] = i })

\* C20: in random mode, while neither the table nor the selection is
\* touched by hand after the queue was made, next selects no index twice and
\* never the one left out; when the queue is used up, every shown index
\* other than the one left out has been selected once.
RandomCycleSelectsEachOnce ==
    cycle.ok
        => /\ \A i \in Indices : TimesPlayed(i) <= 1
           /\ cycle.excl # NoIndex => TimesPlayed(cycle.excl) = 0
           /\ random_queue = << >>
                 => \A i \in Range(table) \ {cycle.excl} : TimesPlayed(i) = 1

\* C20 witness: a queue of two or more was used up by next alone.
RandomCycleCompleted ==
    /\ cycle.ok /\ random_mode /\ last.op = "next"
    /\ random_queue = << >> /\ Len(cycle.played) >= 2

===========================================================================
